---- MODULE Spec2Model ----
(***************************************************************************)
(* Model of quanalys/syncdata/h5py_utils.py: the LockFile sentinel, the    *)
(* writers save_dict / del_dict, the reader open_h5 and the in-memory      *)
(* helpers.  One container path is modelled; its parent directory, its     *)
(* lock sentinel and its HDF5 content are the shared state, and every      *)
(* caller advances one filesystem / h5py operation at a time.              *)
(***************************************************************************)
EXTENDS Integers, Sequences, FiniteSets, TLC

VARIABLES
    dir_exists,   \* os.path.dirname(filename) exists
    sentinel,     \* os.path.exists(lock_filename)
    file,         \* the container: [exists, root], root maps a key to its node
    pc,           \* per caller: the statement it executes next
    args,         \* per caller: [op, data, key] of the call in progress / last made
    idx,          \* per caller: position of save_dict's loop in data.items()
    err,          \* per caller: the exception that is propagating / was raised
    before,       \* SpecSeq only: the container as it was when the call began
    fn,           \* SpecFn only: the last call of an in-memory helper,
                  \* [op, arg, level, ret, node, struct]
    nb,           \* SpecNb only: the AcquisitionNotebookManager, its current
                  \* acquisition and the file of that acquisition
    lk            \* SpecPaths only: the lock files that exist and, per caller,
                  \* the LockFile it holds: [locks, pc, filename, lock_filename, err]

vars == <<dir_exists, sentinel, file, pc, args, idx, err, before, fn, nb, lk>>

\* ------------------------------------------------------------------ bounds
\* Largest number of top-level keys handed to one save_dict call.
MaxItems == 2

\* ---------------------------------------------------------------- callers
Procs == {"A", "B"}

\* ------------------------------------------------------- python values
\* A python value is [tag, data, items, attrs, marker]: data holds the
\* numbers of a scalar / sequence / array (a text is the sequence of its code
\* points), items the (key, value) pairs of a dict in insertion order, attrs
\* the names hasattr finds on an object (what _asdict() returns is kept in
\* items, what asarray() returns in data), marker the python object that its
\* attribute __should_not_be_converted__ holds ("" without the attribute).
PyVal(tag, data, items, attrs) ==
    [tag |-> tag, data |-> data, items |-> items, attrs |-> attrs, marker |-> ""]
PyNone == PyVal("None", <<>>, <<>>, {})
PyInt(n) == PyVal("int", <<n>>, <<>>, {})
PyStr(s) == PyVal("str", s, <<>>, {})
PyBytes(s) == PyVal("bytes", s, <<>>, {})
PyList(s) == PyVal("list", s, <<>>, {})
PyTuple(s) == PyVal("tuple", s, <<>>, {})
NdArray(s) == PyVal("ndarray", s, <<>>, {})
PyDict(items) == PyVal("dict", <<>>, items, {})
PySet(s) == PyVal("set", s, <<>>, {})
PyBool(b) == PyVal("bool", <<IF b THEN 1 ELSE 0>>, <<>>, {})
\* A float that is a whole number n of 1 / FloatScale: a binary fraction,
\* which a python float holds exactly.
FloatScale == 2^6
PyFloat(n) == PyVal("float", <<n>>, <<>>, {})
\* An instance of a user class: attrs among _asdict, asarray and
\* __should_not_be_converted__.
PyObject(attrs, marker, items, data) ==
    [tag |-> "object", data |-> data, items |-> items, attrs |-> attrs,
     marker |-> IF "__should_not_be_converted__" \in attrs THEN marker ELSE ""]

hasattr(v, name) == name \in v.attrs
isinstance(v, tags) == v.tag \in tags

\* ------------------------------------------------------- container nodes
EmptyMap == [k \in {} |-> 0]
Group(children) ==
    [kind |-> "group", dtype |-> "", shape |-> "", gzip |-> FALSE,
     data |-> <<>>, children |-> children]
Dataset(dtype, shape, gzip, data) ==
    [kind |-> "dataset", dtype |-> dtype, shape |-> shape, gzip |-> gzip,
     data |-> data, children |-> EmptyMap]

Put(m, k, n) == [j \in (DOMAIN m) \cup {k} |-> IF j = k THEN n ELSE m[j]]
Pop(m, k) == [j \in (DOMAIN m) \ {k} |-> m[j]]

NoFile == [exists |-> FALSE, root |-> EmptyMap]
H5File(root) == [exists |-> TRUE, root |-> root]

\* group.create_dataset(key, data=..., [compression="gzip"]) of save_sub_dict
create_dataset(group, key, data) ==
    IF isinstance(data, {"ndarray", "list"})
    THEN Put(group, key, Dataset("int", "array", TRUE, data.data))
    ELSE IF isinstance(data, {"tuple"})
    THEN Put(group, key, Dataset("int", "array", FALSE, data.data))
    ELSE IF isinstance(data, {"str", "bytes"})
    THEN Put(group, key, Dataset("string", "scalar", FALSE, data.data))
    ELSE Put(group, key, Dataset(data.tag, "scalar", FALSE, data.data))

\* data = data._asdict() / data = data.asarray() at the head of save_sub_dict
resolve(data) ==
    LET d1 == IF hasattr(data, "_asdict") THEN PyDict(data.items) ELSE data
    IN  IF hasattr(d1, "asarray") THEN NdArray(d1.data) ELSE d1

RECURSIVE save_sub_dict(_, _, _)
RECURSIVE save_items(_, _)
\* for k, v in data.items(): save_sub_dict(g, v, k)
save_items(g, items) ==
    IF items = <<>> THEN g
    ELSE save_items(save_sub_dict(g, Head(items)[2], Head(items)[1]), Tail(items))

\* The children of `group` after save_sub_dict(group, data, key) returned.
save_sub_dict(group, data, key) ==
    LET d == resolve(data)
    IN  IF isinstance(d, {"dict"})
        THEN Put(group, key, Group(save_items(EmptyMap, d.items)))
        ELSE IF ~isinstance(d, {"None"})
        THEN create_dataset(group, key, d)
        ELSE group

RECURSIVE interrupted(_, _, _)
\* The children of `group` that a save_sub_dict(group, data, key) stopped by
\* an exception of h5py can leave behind: nothing of key, or the new group
\* with a prefix of its items written.
interrupted(group, data, key) ==
    LET d == resolve(data)
    IN  IF isinstance(d, {"dict"})
        THEN {group} \cup
             { Put(group, key, Group(c)) :
                 c \in UNION { interrupted(save_items(EmptyMap, SubSeq(d.items, 1, j - 1)),
                                           d.items[j][2], d.items[j][1]) :
                               j \in 1..Len(d.items) } }
        ELSE IF ~isinstance(d, {"None"})
        THEN {group}
        ELSE {}

\* ------------------------------------------------------------ normalizer
\* data.__should_not_be_converted__ is True
should_not_be_converted(data) ==
    hasattr(data, "__should_not_be_converted__") /\ data.marker = "True"

RECURSIVE transform_to_possible_formats_unmarked(_)
\* Variant: the marker is not looked at.
transform_to_possible_formats_unmarked(data) ==
    LET d == resolve(data)
    IN  IF isinstance(d, {"dict"})
        THEN PyDict([ i \in 1..Len(d.items) |->
                 <<d.items[i][1], transform_to_possible_formats_unmarked(d.items[i][2])>> ])
        ELSE IF isinstance(d, {"tuple", "set", "list"})
        THEN NdArray(d.data)
        ELSE d

\* Variant: the values of a dict are left as they are.
transform_to_possible_formats_shallow(data) ==
    IF should_not_be_converted(data) THEN data
    ELSE LET d == resolve(data)
         IN  IF isinstance(d, {"dict"}) THEN d
             ELSE IF isinstance(d, {"tuple", "set", "list"})
             THEN NdArray(d.data)
             ELSE d

RECURSIVE transform_to_possible_formats(_)
\* The value transform_to_possible_formats(data) returns; a dict is the
\* dict it was given, its values replaced key by key.
transform_to_possible_formats(data) ==
    IF should_not_be_converted(data) THEN data
    ELSE LET d == resolve(data)
         IN  IF isinstance(d, {"dict"})
             THEN PyDict([ i \in 1..Len(d.items) |->
                      <<d.items[i][1], transform_to_possible_formats(d.items[i][2])>> ])
             ELSE IF isinstance(d, {"tuple", "set", "list"})
             THEN NdArray(d.data)
             ELSE d

\* ------------------------------------------------------------ summarizer
\* level=3 in the signature of get_dict_structure
DefaultLevel == 3

Digits == <<"0", "1", "2", "3", "4", "5", "6", "7", "8", "9">>
RECURSIVE IntStr(_)
\* The decimal digits of n >= 0.
IntStr(n) == IF n < 10 THEN Digits[n + 1] ELSE IntStr(n \div 10) \o Digits[(n % 10) + 1]
Pad(n, width) ==
    IF width = 3 /\ n < 10 THEN "00" \o IntStr(n)
    ELSE IF (width = 3 /\ n < 100) \/ (width = 2 /\ n < 10) THEN "0" \o IntStr(n)
    ELSE IntStr(n)
Abs(n) == IF n < 0 THEN -n ELSE n
Sign(n) == IF n < 0 THEN "-" ELSE ""
RECURSIVE Pow10(_)
Pow10(k) == IF k = 0 THEN 1 ELSE 10 * Pow10(k - 1)
\* num / den rounded to the nearest integer, a tie to the even one.
RoundHalfEven(num, den) ==
    LET q == num \div den
        r == num % den
    IN  IF 2 * r > den \/ (2 * r = den /\ q % 2 = 1) THEN q + 1 ELSE q

\* f"{v:.0f}" of an int
format_0f(n) == Sign(n) \o IntStr(Abs(n))

\* f"{v:.3f}" of the float n / FloatScale
format_3f(n) ==
    LET q == RoundHalfEven(Abs(n) * 1000, FloatScale)
    IN  Sign(n) \o IntStr(q \div 1000) \o "." \o Pad(q % 1000, 3)

\* f"{v:.3e}" of the float n / FloatScale
format_3e(n) ==
    LET a == Abs(n)
        Reaches(e) == IF e >= 0 THEN a >= FloatScale * Pow10(e)
                      ELSE a * Pow10(-e) >= FloatScale
        e0 == IF a = 0 THEN 0
              ELSE CHOOSE e \in -2..3 : Reaches(e) /\ (e = 3 \/ ~Reaches(e + 1))
        q0 == IF e0 >= 0 THEN RoundHalfEven(a * 1000, FloatScale * Pow10(e0))
              ELSE RoundHalfEven(a * 1000 * Pow10(-e0), FloatScale)
        e == IF q0 = 10000 THEN e0 + 1 ELSE e0
        q == IF q0 = 10000 THEN 1000 ELSE q0
    IN  Sign(n) \o IntStr(q \div 1000) \o "." \o Pad(q % 1000, 3)
          \o "e" \o (IF e < 0 THEN "-" ELSE "+") \o Pad(Abs(e), 2)

\* .1 <= v <= 100 for the float n / FloatScale (the float .1 lies between
\* 1/10 and any larger multiple of 1 / FloatScale).
in_fixed_range(n) == 10 * n >= FloatScale /\ n <= 100 * FloatScale

\* type(v).__name__
type_name(v) == IF v.tag = "None" THEN "NoneType" ELSE v.tag

\* A description is the str or the dict that get_dict_structure stores
\* under a key: [kind, text, map].
StrDesc(text) == [kind |-> "str", text |-> text, map |-> EmptyMap]
DictDesc(map) == [kind |-> "dict", text |-> "", map |-> map]
len(d) == IF d.kind = "dict" THEN Cardinality(DOMAIN d.map) ELSE Len(d.text)
ValueOf(items, k) == items[CHOOSE i \in 1..Len(items) : items[i][1] = k][2]

\* structure[k] for a value v that is not a dict.
describe_leaf(v) ==
    IF isinstance(v, {"ndarray", "list"})
    THEN StrDesc("shape: (" \o IntStr(Len(v.data)) \o ",) (type: " \o type_name(v) \o ")")
    ELSE IF isinstance(v, {"int", "bool"})
    THEN StrDesc(format_0f(v.data[1]) \o " (type : " \o type_name(v) \o ")")
    ELSE IF isinstance(v, {"float"})
    THEN LET str_value == IF in_fixed_range(v.data[1]) THEN format_3f(v.data[1])
                          ELSE format_3e(v.data[1])
         IN  StrDesc(str_value \o " (type : " \o type_name(v) \o ")")
    ELSE StrDesc("variable of type " \o type_name(v))

RECURSIVE get_dict_structure(_, _)
RECURSIVE describe_collapse_from_5(_, _)
\* Variant: a summary of 5 entries collapses too.
describe_collapse_from_5(v, level) ==
    IF isinstance(v, {"dict"})
    THEN IF level # 0
         THEN LET internal_structure ==
                      IF Len(v.items) # 0 THEN get_dict_structure(v, level - 1)
                      ELSE StrDesc("empty dict")
              IN  IF len(internal_structure) >= 5 THEN StrDesc("variable of type dict")
                  ELSE internal_structure
         ELSE StrDesc("variable of type dict")
    ELSE describe_leaf(v)

RECURSIVE describe(_, _)
\* structure[k] as the body of the loop of get_dict_structure sets it for
\* the value v.
describe(v, level) ==
    IF isinstance(v, {"dict"})
    THEN IF level # 0
         THEN LET internal_structure ==
                      IF Len(v.items) # 0 THEN get_dict_structure(v, level - 1)
                      ELSE StrDesc("empty dict")
              IN  IF len(internal_structure) > 5 THEN StrDesc("variable of type dict")
                  ELSE internal_structure
         ELSE StrDesc("variable of type dict")
    ELSE describe_leaf(v)

get_dict_structure(data, level) ==
    DictDesc([ k \in { data.items[i][1] : i \in 1..Len(data.items) } |->
                 describe(ValueOf(data.items, k), level) ])

\* ---------------------------------------------------------------- reader
\* value[()] of h5py on a dataset: an array, a numpy scalar, or the bytes of
\* a string dataset.
h5py_read(node) ==
    IF node.dtype = "string" THEN PyBytes(node.data)
    ELSE IF node.shape = "array" THEN NdArray(node.data)
    ELSE PyVal(node.dtype, node.data, <<>>, {})

\* Variant: no decoding.
transform_on_open_raw(value) == value
transform_on_open(value) ==
    IF isinstance(value, {"bytes"}) THEN PyStr(value.data) ELSE value

\* The key argument of open_h5 / open_h5_group: None, or the set of names
\* (a single str is wrapped into a set).
KeyNone == [none |-> TRUE, names |-> {}]
KeySet(names) == [none |-> FALSE, names |-> names]
\* key if isinstance(key, set) else set([key])
KeyStr(name) == KeySet({name})

\* What open_h5_group returns.  A python dict read from the container is
\* [tag |-> "dict", map, val] with map sending each key to what was read
\* under it; a leaf is [tag |-> "leaf", map, val] with val the python value.
ReadDict(map) == [tag |-> "dict", map |-> map, val |-> PyNone]
ReadLeaf(val) == [tag |-> "leaf", map |-> EmptyMap, val |-> val]

RECURSIVE open_h5_group_filter_nested(_, _)
\* Variant: the key filter is handed down to the nested groups.
open_h5_group_filter_nested(group, key) ==
    ReadDict([ k \in { g \in DOMAIN group : key.none \/ g \in key.names } |->
                 IF group[k].kind = "group"
                 THEN open_h5_group_filter_nested(group[k].children, key)
                 ELSE ReadLeaf(transform_on_open(h5py_read(group[k]))) ])

RECURSIVE open_h5_group(_, _)
open_h5_group(group, key) ==
    ReadDict([ k \in { g \in DOMAIN group : key.none \/ g \in key.names } |->
                 IF group[k].kind = "group"
                 THEN open_h5_group(group[k].children, KeyNone)
                 ELSE ReadLeaf(transform_on_open(h5py_read(group[k]))) ])

\* open_h5(fullpath, key) on an existing container.
open_h5(f, key) == open_h5_group(f.root, key)

keys_h5(f) == DOMAIN f.root

\* ---------------------------------------------------------------- inputs
Keys == {"x", "y"}
Text == <<97, 98>>
VList == PyList(<<1, 2, 3>>)
VInt == PyInt(7)
VBytes == PyBytes(Text)
VDict1 == PyDict(<< <<"a", VInt>> >>)
VDict2 == PyDict(<< <<"b", PyDict(<< <<"a", VList>>, <<"c", PyStr(Text)>> >>)>>,
                    <<"c", PyTuple(<<4, 5>>)>> >>)
Values == {PyNone, VList, VBytes, VDict1, VDict2}

\* The values written by concurrent callers.
ConcValues == {PyNone, VDict1}

RECURSIVE DataOfLen(_, _)
\* The dicts with n distinct top-level keys and values in V, as sequences
\* of (key, value).
DataOfLen(n, V) ==
    IF n = 0 THEN { <<>> }
    ELSE { Append(d, <<k, v>>) :
             d \in DataOfLen(n - 1, V), k \in Keys, v \in V }
DistinctKeys(d) == \A i, j \in 1..Len(d) : i # j => d[i][1] # d[j][1]
SaveArgs(V) == { d \in UNION { DataOfLen(n, V) : n \in 0..MaxItems } : DistinctKeys(d) }
SeqArgs == SaveArgs(Values)
ConcArgs == SaveArgs(ConcValues)

NoArgs == [op |-> "none", data |-> <<>>, key |-> ""]

\* The values the in-memory helpers are called with.
Markers == {"True", "False", "1"}
Objects ==
    { PyObject(a, m, << <<"a", PyTuple(<<4, 5>>)>> >>, <<8, 9>>) :
        a \in SUBSET {"_asdict", "asarray", "__should_not_be_converted__"},
        m \in Markers }
Leaves ==
    {PyNone, VInt, PyStr(Text), VList, PyTuple(<<4, 5>>), PySet(<<6>>),
     PyList(<<>>), PyTuple(<<>>), PySet(<<>>), NdArray(<<1>>)} \cup Objects
NormValues ==
    Leaves
    \cup { PyDict(<< <<"a", v>> >>) : v \in Leaves }
    \cup { PyDict(<< <<"a", PyDict(<< <<"b", v>> >>)>>, <<"c", PyTuple(<<4, 5>>)>> >>) :
              v \in Leaves }
\* What h5py can store: no set, and no object that stays an object.
Storable(v) ==
    LET d == resolve(v)
    IN  /\ ~isinstance(d, {"set", "object"})
        /\ isinstance(d, {"dict"}) =>
              \A i \in 1..Len(d.items) :
                 LET c == resolve(d.items[i][2])
                 IN  /\ ~isinstance(c, {"set", "object"})
                     /\ isinstance(c, {"dict"}) =>
                           \A j \in 1..Len(c.items) :
                              ~isinstance(resolve(c.items[j][2]), {"set", "object", "dict"})
StoredValues == { v \in NormValues : Storable(v) }

\* The dicts get_dict_structure is called with: values of every kind, dicts
\* of 0..MaxWidth keys at the nesting depths 1..DefaultLevel + 1, and
\* top-level dicts of up to MaxWidth + 1 keys.
MaxWidth == 6
KeyName(i) == "k" \o IntStr(i)
Wide(n) == PyDict([ i \in 1..n |-> <<KeyName(i), PyInt(i)>> ])
RECURSIVE Chain(_, _)
Chain(j, v) == IF j = 0 THEN v ELSE PyDict(<< <<"n", Chain(j - 1, v)>> >>)
Floats == { PyFloat(s * n) : s \in {-1, 1},
                             n \in {0, 1, 4, 6, 7, 79, 320, 6399, 6400, 6401, 64000} }
SumLeaves ==
    {PyNone, VInt, PyInt(-3), PyBool(TRUE), PyStr(Text), VList, PyList(<<>>),
     NdArray(<<1, 2>>), PyTuple(<<4, 5>>)} \cup Floats
SumValues ==
    SumLeaves \cup { Chain(j, Wide(n)) : j \in 0..DefaultLevel, n \in 0..MaxWidth }
TopWide(n, v) == PyDict([ i \in 1..n |-> <<KeyName(i), IF i = 1 THEN v ELSE PyInt(i)>> ])
SumData ==
    { PyDict(<< <<"x", v>> >>) : v \in SumValues }
    \cup { TopWide(n, Wide(w)) : n \in 1..(MaxWidth + 1), w \in {0, MaxWidth - 1, MaxWidth} }

\* The file of an acquisition that was not written yet, and the manager
\* before AcquisitionNotebookManager(...) was called.  name is the path of
\* the current acquisition without extension, as a sequence of characters
\* (empty: no acquisition yet); useful is the 'useful' entry of the
\* acquisition, in memory and, once written, in its file; arg keeps the
\* arguments of the last analysis_cell call; saved and cell_run tell whether
\* save_acquisition, and analysis_cell without filename, were called since
\* the last acquisition_cell.
NoH5 == [exists |-> FALSE, keys |-> {}, useful |-> FALSE, analysis_cell |-> FALSE]
NoFilename == [filename |-> <<>>, on_disk |-> FALSE]
NoManager ==
    [made |-> FALSE, save_on_edit |-> FALSE, save_on_edit_analysis |-> FALSE,
     name |-> <<>>, aq |-> {}, h5 |-> NoH5, am |-> "None",
     analysis_cell_str |-> "None", is_old_data |-> FALSE, err |-> "none",
     last |-> "none", saved |-> FALSE, arg |-> NoFilename, cell_run |-> FALSE]
\* Experiment names and the keys of the acquired data.
Names == { <<"a", "b", "c">>, <<"a", "b", "5">> }
DataKeys == {"x", "y"}
\* The filenames analysis_cell is given for old data: the path of an earlier
\* acquisition, with or without the extension.
H5Ext == <<".", "h", "5">>
OldFilenames ==
    { <<"o", "l", "d">>, <<"o", "l", "5">>, <<"o", "l", "d">> \o H5Ext }

NoCall == [op |-> "none", arg |-> PyNone, level |-> 0, ret |-> PyNone,
           node |-> EmptyMap, struct |-> DictDesc(EmptyMap)]

\* ------------------------------------------------------------------ paths
\* Filenames as sequences of characters.
LockExt == <<".", "l", "o", "c", "k">>
Paths ==
    { <<"a", ".", "h">>, <<"a", ".", "d">>, <<"b", ".", "h">>, <<"a">>,
      <<"a", ".", "b", ".", "h">>, <<"a", ".", "b">>, <<".", "h">>,
      <<"d", ".", "x", "/", "a">>, <<"d", ".", "h">> }

\* str.rfind on one character, counting from 1; 0 when absent.
rfind(p, c) ==
    IF \E i \in 1..Len(p) : p[i] = c
    THEN CHOOSE i \in 1..Len(p) : p[i] = c /\ \A j \in (i + 1)..Len(p) : p[j] # c
    ELSE 0

\* os.path.splitext: the extension starts at the last dot of the last
\* component, leading dots of that component not counted.
splitext(p) ==
    LET sepIndex == rfind(p, "/")
        dotIndex == rfind(p, ".")
    IN  IF /\ dotIndex > sepIndex
           /\ \E filenameIndex \in (sepIndex + 1)..(dotIndex - 1) : p[filenameIndex] # "."
        THEN <<SubSeq(p, 1, dotIndex - 1), SubSeq(p, dotIndex, Len(p))>>
        ELSE <<p, <<>>>>

NoLocks ==
    [locks |-> {},
     pc |-> [p \in Procs |-> "idle"],
     filename |-> [p \in Procs |-> <<>>],
     lock_filename |-> [p \in Procs |-> <<>>],
     err |-> [p \in Procs |-> "none"]]

\* ------------------------------------------------------------------- init
Init ==
    /\ dir_exists = FALSE
    /\ sentinel = FALSE
    /\ file = NoFile
    /\ pc = [p \in Procs |-> "idle"]
    /\ args = [p \in Procs |-> NoArgs]
    /\ idx = [p \in Procs |-> 0]
    /\ err = [p \in Procs |-> "none"]
    /\ before = NoFile
    /\ fn = NoCall
    /\ nb = NoManager
    /\ lk = NoLocks


\* --------------------------------------------------------------- save_dict
\* Variant: h5py.File is entered before LockFile (the with-statements swapped).
save_dict_open_first(p, data) ==
    /\ pc[p] = "idle"
    /\ dir_exists' = TRUE
    /\ file' = IF file.exists THEN file ELSE H5File(EmptyMap)
    /\ pc' = [pc EXCEPT ![p] = "enter"]
    /\ args' = [args EXCEPT ![p] = [op |-> "save_dict", data |-> data, key |-> ""]]
    /\ idx' = [idx EXCEPT ![p] = 0]
    /\ err' = [err EXCEPT ![p] = "none"]
    /\ UNCHANGED <<sentinel>>

\* save_dict(filename, data) is called: os.makedirs(..., exist_ok=True), then
\* the with-statement evaluates LockFile(filename).
save_dict(p, data) ==
    /\ pc[p] = "idle"
    /\ dir_exists' = TRUE
    /\ pc' = [pc EXCEPT ![p] = "enter"]
    /\ args' = [args EXCEPT ![p] = [op |-> "save_dict", data |-> data, key |-> ""]]
    /\ idx' = [idx EXCEPT ![p] = 0]
    /\ err' = [err EXCEPT ![p] = "none"]
    /\ UNCHANGED <<sentinel, file>>

\* del_dict(filename, key) is called.
del_dict(p, key) ==
    /\ pc[p] = "idle"
    /\ pc' = [pc EXCEPT ![p] = "enter"]
    /\ args' = [args EXCEPT ![p] = [op |-> "del_dict", data |-> <<>>, key |-> key]]
    /\ idx' = [idx EXCEPT ![p] = 0]
    /\ err' = [err EXCEPT ![p] = "none"]
    /\ UNCHANGED <<dir_exists, sentinel, file>>

\* ---------------------------------------------------------------- LockFile
\* Variant: __enter__ without the existence test.
LockFile_enter_blind(p) ==
    /\ pc[p] = "enter"
    /\ pc' = [pc EXCEPT ![p] = "create_lock"]
    /\ UNCHANGED <<dir_exists, sentinel, file, args, idx, err>>

\* Variant: the refused caller cleans the sentinel up before raising.
LockFile_enter_steal(p) ==
    /\ pc[p] = "enter"
    /\ IF sentinel
       THEN /\ pc' = [pc EXCEPT ![p] = "done"]
            /\ err' = [err EXCEPT ![p] = "FileLockedError"]
            /\ sentinel' = FALSE
       ELSE /\ pc' = [pc EXCEPT ![p] = "create_lock"]
            /\ err' = err
            /\ sentinel' = sentinel
    /\ UNCHANGED <<dir_exists, file, args, idx>>

\* LockFile.__enter__, the existence test: raise FileLockedError, which
\* leaves the call (no __exit__ runs for a failed __enter__).
LockFile_enter(p) ==
    /\ pc[p] = "enter"
    /\ IF sentinel
       THEN /\ pc' = [pc EXCEPT ![p] = "done"]
            /\ err' = [err EXCEPT ![p] = "FileLockedError"]
       ELSE /\ pc' = [pc EXCEPT ![p] = "create_lock"]
            /\ err' = err
    /\ UNCHANGED <<dir_exists, sentinel, file, args, idx>>

\* Variant: the sentinel is created with an atomic create-exclusive open.
LockFile_create_excl(p) ==
    /\ pc[p] = "create_lock"
    /\ IF dir_exists /\ ~sentinel
       THEN /\ sentinel' = TRUE
            /\ pc' = [pc EXCEPT ![p] = "open"]
            /\ err' = err
       ELSE /\ sentinel' = sentinel
            /\ pc' = [pc EXCEPT ![p] = "done"]
            /\ err' = [err EXCEPT ![p] = IF dir_exists THEN "FileLockedError" ELSE "OSError"]
    /\ UNCHANGED <<dir_exists, file, args, idx>>

\* LockFile.__enter__, open(lock_filename, 'w'): creates (or truncates) the
\* sentinel; fails when the directory is missing.
LockFile_create(p) ==
    /\ pc[p] = "create_lock"
    /\ IF dir_exists
       THEN /\ sentinel' = TRUE
            /\ pc' = [pc EXCEPT ![p] = "open"]
            /\ err' = err
       ELSE /\ sentinel' = sentinel
            /\ pc' = [pc EXCEPT ![p] = "done"]
            /\ err' = [err EXCEPT ![p] = "OSError"]
    /\ UNCHANGED <<dir_exists, file, args, idx>>

\* Variant: __exit__ removes without the existence test.
LockFile_exit_unchecked(p) ==
    /\ pc[p] = "exit"
    /\ pc' = [pc EXCEPT ![p] = "remove"]
    /\ UNCHANGED <<dir_exists, sentinel, file, args, idx, err>>

\* LockFile.__exit__, the existence test.
LockFile_exit(p) ==
    /\ pc[p] = "exit"
    /\ pc' = [pc EXCEPT ![p] = IF sentinel THEN "remove" ELSE "done"]
    /\ UNCHANGED <<dir_exists, sentinel, file, args, idx, err>>

\* LockFile.__exit__, os.remove(lock_filename): FileNotFoundError when the
\* sentinel went away since the test.
LockFile_remove(p) ==
    /\ pc[p] = "remove"
    /\ sentinel' = FALSE
    /\ pc' = [pc EXCEPT ![p] = "done"]
    /\ err' = [err EXCEPT ![p] = IF sentinel THEN err[p] ELSE "OSError"]
    /\ UNCHANGED <<dir_exists, file, args, idx>>

\* ------------------------------------------------------- protected section
AfterOpen(p) ==
    IF args[p].op = "del_dict" THEN "pop"
    ELSE IF Len(args[p].data) = 0 THEN "exit" ELSE "pop"

\* h5py.File(filename, 'a'): opens the container, creating it when absent.
h5py_File_open(p) ==
    /\ pc[p] = "open"
    /\ file' = IF file.exists THEN file ELSE H5File(EmptyMap)
    /\ pc' = [pc EXCEPT ![p] = AfterOpen(p)]
    /\ idx' = [idx EXCEPT ![p] = 1]
    /\ UNCHANGED <<dir_exists, sentinel, args, err>>

\* Variant: the failure leaves save_dict / del_dict without running __exit__.
h5py_File_fails_unreleased(p) ==
    /\ pc[p] = "open"
    /\ pc' = [pc EXCEPT ![p] = "done"]
    /\ err' = [err EXCEPT ![p] = "OSError"]
    /\ UNCHANGED <<dir_exists, sentinel, file, args, idx>>

\* h5py.File(filename, 'a') raises (permissions, not an HDF5 file, ...).
h5py_File_fails(p) ==
    /\ pc[p] = "open"
    /\ pc' = [pc EXCEPT ![p] = "exit"]
    /\ err' = [err EXCEPT ![p] = "OSError"]
    /\ UNCHANGED <<dir_exists, sentinel, file, args, idx>>

\* Variant: the existing node is not removed.
save_dict_pop_never(p) ==
    /\ pc[p] = "pop"
    /\ args[p].op = "save_dict"
    /\ pc' = [pc EXCEPT ![p] = "save"]
    /\ UNCHANGED <<dir_exists, sentinel, file, args, idx, err>>

\* Variant: `if value is None: continue` comes before the pop.
save_dict_pop_unless_None(p) ==
    /\ pc[p] = "pop"
    /\ args[p].op = "save_dict"
    /\ LET key == args[p].data[idx[p]][1]
           value == args[p].data[idx[p]][2]
       IN  file' = IF key \in DOMAIN file.root /\ ~isinstance(value, {"None"})
                   THEN H5File(Pop(file.root, key)) ELSE file
    /\ pc' = [pc EXCEPT ![p] = "save"]
    /\ UNCHANGED <<dir_exists, sentinel, args, idx, err>>

\* save_dict: if key in file.keys(): file.pop(key)
\* Variant: the keys of data are all removed before the first one is saved.
save_dict_pop_all_first(p) ==
    /\ pc[p] = "pop"
    /\ args[p].op = "save_dict"
    /\ file' = H5File([ k \in DOMAIN file.root \ { args[p].data[i][1] : i \in 1..Len(args[p].data) }
                          |-> file.root[k] ])
    /\ pc' = [pc EXCEPT ![p] = "save"]
    /\ UNCHANGED <<dir_exists, sentinel, args, idx, err>>

save_dict_pop(p) ==
    /\ pc[p] = "pop"
    /\ args[p].op = "save_dict"
    /\ LET key == args[p].data[idx[p]][1]
       IN  file' = IF key \in DOMAIN file.root
                   THEN H5File(Pop(file.root, key)) ELSE file
    /\ pc' = [pc EXCEPT ![p] = "save"]
    /\ UNCHANGED <<dir_exists, sentinel, args, idx, err>>

NextItem(p) == IF idx[p] < Len(args[p].data) THEN "pop" ELSE "exit"

\* save_dict: if value is None: continue; save_sub_dict(file, value, key).
\* create_group / create_dataset raise ValueError when the name exists.
save_dict_save(p) ==
    /\ pc[p] = "save"
    /\ LET key == args[p].data[idx[p]][1]
           value == args[p].data[idx[p]][2]
       IN  IF isinstance(value, {"None"})
           THEN /\ file' = file
                /\ err' = err
                /\ pc' = [pc EXCEPT ![p] = NextItem(p)]
           ELSE IF key \in DOMAIN file.root
           THEN /\ file' = file
                /\ err' = [err EXCEPT ![p] = "ValueError"]
                /\ pc' = [pc EXCEPT ![p] = "exit"]
           ELSE /\ file' = H5File(save_sub_dict(file.root, value, key))
                /\ err' = err
                /\ pc' = [pc EXCEPT ![p] = NextItem(p)]
    /\ idx' = [idx EXCEPT ![p] = idx[p] + 1]
    /\ UNCHANGED <<dir_exists, sentinel, args>>

\* save_sub_dict is stopped by an exception of h5py part-way.
save_dict_save_fails(p) ==
    /\ pc[p] = "save"
    /\ LET key == args[p].data[idx[p]][1]
           value == args[p].data[idx[p]][2]
       IN  /\ key \notin DOMAIN file.root
           /\ \E r \in interrupted(file.root, value, key) : file' = H5File(r)
    /\ err' = [err EXCEPT ![p] = "OSError"]
    /\ pc' = [pc EXCEPT ![p] = "exit"]
    /\ UNCHANGED <<dir_exists, sentinel, args, idx>>

\* Variant: the pop empties the container.
del_dict_pop_clear(p) ==
    /\ pc[p] = "pop"
    /\ args[p].op = "del_dict"
    /\ IF args[p].key \in DOMAIN file.root
       THEN /\ file' = H5File(EmptyMap)
            /\ err' = err
       ELSE /\ file' = file
            /\ err' = [err EXCEPT ![p] = "KeyError"]
    /\ pc' = [pc EXCEPT ![p] = "exit"]
    /\ UNCHANGED <<dir_exists, sentinel, args, idx>>

\* Variant: file.pop(key, None), an absent key is no error.
del_dict_pop_default(p) ==
    /\ pc[p] = "pop"
    /\ args[p].op = "del_dict"
    /\ file' = IF args[p].key \in DOMAIN file.root
                THEN H5File(Pop(file.root, args[p].key)) ELSE file
    /\ pc' = [pc EXCEPT ![p] = "exit"]
    /\ UNCHANGED <<dir_exists, sentinel, args, idx, err>>

\* del_dict: file.pop(key), KeyError when the key is absent.
del_dict_pop(p) ==
    /\ pc[p] = "pop"
    /\ args[p].op = "del_dict"
    /\ IF args[p].key \in DOMAIN file.root
       THEN /\ file' = H5File(Pop(file.root, args[p].key))
            /\ err' = err
       ELSE /\ file' = file
            /\ err' = [err EXCEPT ![p] = "KeyError"]
    /\ pc' = [pc EXCEPT ![p] = "exit"]
    /\ UNCHANGED <<dir_exists, sentinel, args, idx>>

\* ----------------------------------------------------------------- readers
\* Variant: the reader takes the LockFile like the writers do.
open_h5_reads_locked(p) ==
    /\ pc[p] = "idle"
    /\ pc' = [pc EXCEPT ![p] = "done"]
    /\ args' = [args EXCEPT ![p] = [op |-> "open_h5", data |-> <<>>, key |-> ""]]
    /\ err' = [err EXCEPT ![p] = IF sentinel THEN "FileLockedError"
                                 ELSE IF file.exists THEN "none" ELSE "OSError"]
    /\ UNCHANGED <<dir_exists, sentinel, file, idx>>

\* open_h5(fullpath): h5py.File(fullpath, 'r') raises when there is no
\* container; otherwise open_h5_group reads it and the dict is returned.
open_h5_reads(p) ==
    /\ pc[p] = "idle"
    /\ pc' = [pc EXCEPT ![p] = "done"]
    /\ args' = [args EXCEPT ![p] = [op |-> "open_h5", data |-> <<>>, key |-> ""]]
    /\ err' = [err EXCEPT ![p] = IF file.exists THEN "none" ELSE "OSError"]
    /\ UNCHANGED <<dir_exists, sentinel, file, idx>>

\* keys_h5(filename): h5py.File(filename, 'r'), set(file.keys()).
keys_h5_reads(p) ==
    /\ pc[p] = "idle"
    /\ pc' = [pc EXCEPT ![p] = "done"]
    /\ args' = [args EXCEPT ![p] = [op |-> "keys_h5", data |-> <<>>, key |-> ""]]
    /\ err' = [err EXCEPT ![p] = IF file.exists THEN "none" ELSE "OSError"]
    /\ UNCHANGED <<dir_exists, sentinel, file, idx>>

\* The call is over: save_dict / del_dict returned os.path.getmtime(filename)
\* or raised err; the caller is free to make its next call.
call_ends(p) ==
    /\ pc[p] = "done"
    /\ pc' = [pc EXCEPT ![p] = "idle"]
    /\ args' = [args EXCEPT ![p] = NoArgs]
    /\ idx' = [idx EXCEPT ![p] = 0]
    /\ err' = [err EXCEPT ![p] = "none"]
    /\ UNCHANGED <<dir_exists, sentinel, file>>

\* ------------------------------------------------------------------- next
\* Concurrent callers on the one path, each making any number of calls.
Next ==
    \E p \in Procs :
        \/ (\E d \in ConcArgs : save_dict(p, d)) /\ UNCHANGED <<before, fn, nb, lk>>
        \/ (\E k \in Keys : del_dict(p, k)) /\ UNCHANGED <<before, fn, nb, lk>>
        \/ LockFile_enter(p) /\ UNCHANGED <<before, fn, nb, lk>>
        \/ LockFile_create(p) /\ UNCHANGED <<before, fn, nb, lk>>
        \/ h5py_File_open(p) /\ UNCHANGED <<before, fn, nb, lk>>
        \/ h5py_File_fails(p) /\ UNCHANGED <<before, fn, nb, lk>>
        \/ save_dict_pop(p) /\ UNCHANGED <<before, fn, nb, lk>>
        \/ save_dict_save(p) /\ UNCHANGED <<before, fn, nb, lk>>
        \/ save_dict_save_fails(p) /\ UNCHANGED <<before, fn, nb, lk>>
        \/ del_dict_pop(p) /\ UNCHANGED <<before, fn, nb, lk>>
        \/ LockFile_exit(p) /\ UNCHANGED <<before, fn, nb, lk>>
        \/ LockFile_remove(p) /\ UNCHANGED <<before, fn, nb, lk>>
        \/ open_h5_reads(p) /\ UNCHANGED <<before, fn, nb, lk>>
        \/ keys_h5_reads(p) /\ UNCHANGED <<before, fn, nb, lk>>
        \/ call_ends(p) /\ UNCHANGED <<before, fn, nb, lk>>
Spec == Init /\ [][Next]_vars

\* ------------------------------------------------------------------ crash
\* The process of caller p is killed inside the with LockFile block: no
\* __exit__ runs, and p takes no further step.
killed(p) ==
    /\ pc[p] \in {"open", "pop", "save"}
    /\ pc' = [pc EXCEPT ![p] = "killed"]
    /\ UNCHANGED <<dir_exists, sentinel, file, args, idx, err>>

\* The callers of Spec, writing at most one key per call, any of which can
\* be killed.
CrashArgs == { d \in ConcArgs : Len(d) <= 1 }
NextCrash ==
    \E p \in Procs :
        \/ (\E d \in CrashArgs : save_dict(p, d)) /\ UNCHANGED <<before, fn, nb, lk>>
        \/ (\E k \in Keys : del_dict(p, k)) /\ UNCHANGED <<before, fn, nb, lk>>
        \/ LockFile_enter(p) /\ UNCHANGED <<before, fn, nb, lk>>
        \/ LockFile_create(p) /\ UNCHANGED <<before, fn, nb, lk>>
        \/ h5py_File_open(p) /\ UNCHANGED <<before, fn, nb, lk>>
        \/ h5py_File_fails(p) /\ UNCHANGED <<before, fn, nb, lk>>
        \/ save_dict_pop(p) /\ UNCHANGED <<before, fn, nb, lk>>
        \/ save_dict_save(p) /\ UNCHANGED <<before, fn, nb, lk>>
        \/ save_dict_save_fails(p) /\ UNCHANGED <<before, fn, nb, lk>>
        \/ del_dict_pop(p) /\ UNCHANGED <<before, fn, nb, lk>>
        \/ LockFile_exit(p) /\ UNCHANGED <<before, fn, nb, lk>>
        \/ LockFile_remove(p) /\ UNCHANGED <<before, fn, nb, lk>>
        \/ open_h5_reads(p) /\ UNCHANGED <<before, fn, nb, lk>>
        \/ keys_h5_reads(p) /\ UNCHANGED <<before, fn, nb, lk>>
        \/ call_ends(p) /\ UNCHANGED <<before, fn, nb, lk>>
        \/ killed(p) /\ UNCHANGED <<before, fn, nb, lk>>
SpecCrash == Init /\ [][NextCrash]_vars

\* ------------------------------------------------- LockFile on many paths
\* Variant: the lock file is the filename with ".lock" appended.
LockFile_init_appends(p, filename) ==
    /\ lk.pc[p] \in {"idle", "done"}
    /\ lk' = [lk EXCEPT !.pc[p] = "enter",
                        !.filename[p] = filename,
                        !.lock_filename[p] = filename \o LockExt,
                        !.err[p] = "none"]
    /\ UNCHANGED <<dir_exists, sentinel, file, pc, args, idx, err, before, fn, nb>>

\* with LockFile(filename): __init__ of a mutating call of caller p.
LockFile_init(p, filename) ==
    /\ lk.pc[p] \in {"idle", "done"}
    /\ lk' = [lk EXCEPT !.pc[p] = "enter",
                        !.filename[p] = filename,
                        !.lock_filename[p] = splitext(filename)[1] \o LockExt,
                        !.err[p] = "none"]
    /\ UNCHANGED <<dir_exists, sentinel, file, pc, args, idx, err, before, fn, nb>>

\* __enter__: the existence test.
LockFile_enter_at(p) ==
    /\ lk.pc[p] = "enter"
    /\ lk' = IF lk.lock_filename[p] \in lk.locks
             THEN [lk EXCEPT !.pc[p] = "done", !.err[p] = "FileLockedError"]
             ELSE [lk EXCEPT !.pc[p] = "create_lock"]
    /\ UNCHANGED <<dir_exists, sentinel, file, pc, args, idx, err, before, fn, nb>>

\* __enter__: open(lock_filename, 'w').
LockFile_create_at(p) ==
    /\ lk.pc[p] = "create_lock"
    /\ lk' = [lk EXCEPT !.locks = @ \cup {lk.lock_filename[p]}, !.pc[p] = "body"]
    /\ UNCHANGED <<dir_exists, sentinel, file, pc, args, idx, err, before, fn, nb>>

\* The body of the with statement: the work on the container.
LockFile_body(p) ==
    /\ lk.pc[p] = "body"
    /\ lk' = [lk EXCEPT !.pc[p] = "exit"]
    /\ UNCHANGED <<dir_exists, sentinel, file, pc, args, idx, err, before, fn, nb>>

\* __exit__: the existence test.
LockFile_exit_at(p) ==
    /\ lk.pc[p] = "exit"
    /\ lk' = [lk EXCEPT !.pc[p] = IF lk.lock_filename[p] \in lk.locks
                                  THEN "remove" ELSE "done"]
    /\ UNCHANGED <<dir_exists, sentinel, file, pc, args, idx, err, before, fn, nb>>

\* __exit__: os.remove(lock_filename).
LockFile_remove_at(p) ==
    /\ lk.pc[p] = "remove"
    /\ lk' = [lk EXCEPT !.locks = @ \ {lk.lock_filename[p]},
                        !.pc[p] = "done",
                        !.err[p] = IF lk.lock_filename[p] \in lk.locks
                                   THEN @ ELSE "OSError"]
    /\ UNCHANGED <<dir_exists, sentinel, file, pc, args, idx, err, before, fn, nb>>

NextPaths ==
    \E p \in Procs :
        \/ \E filename \in Paths : LockFile_init(p, filename)
        \/ LockFile_enter_at(p)
        \/ LockFile_create_at(p)
        \/ LockFile_body(p)
        \/ LockFile_exit_at(p)
        \/ LockFile_remove_at(p)
SpecPaths == Init /\ [][NextPaths]_vars

\* ------------------------------------------------------ in-memory helpers
\* transform_to_possible_formats(data) is called and returns.
call_transform_to_possible_formats(data) ==
    /\ fn' = [op |-> "transform_to_possible_formats", arg |-> data, level |-> 0,
              ret |-> transform_to_possible_formats(data), node |-> EmptyMap,
              struct |-> DictDesc(EmptyMap)]
    /\ UNCHANGED <<dir_exists, sentinel, file, pc, args, idx, err, before, nb, lk>>

\* save_sub_dict(group, data, key) is called on a group without that key
\* and returns; node keeps the children of the group.
call_save_sub_dict(data) ==
    /\ fn' = [op |-> "save_sub_dict", arg |-> data, level |-> 0,
              ret |-> PyNone, node |-> save_sub_dict(EmptyMap, data, "k"),
              struct |-> DictDesc(EmptyMap)]
    /\ UNCHANGED <<dir_exists, sentinel, file, pc, args, idx, err, before, nb, lk>>

\* get_dict_structure(data, level) is called and returns.
call_get_dict_structure(data, level) ==
    /\ fn' = [op |-> "get_dict_structure", arg |-> data, level |-> level,
              ret |-> PyNone, node |-> EmptyMap,
              struct |-> get_dict_structure(data, level)]
    /\ UNCHANGED <<dir_exists, sentinel, file, pc, args, idx, err, before, nb, lk>>

NextFn ==
    \/ \E v \in NormValues : call_transform_to_possible_formats(v)
    \/ \E v \in StoredValues : call_save_sub_dict(v)
    \/ \E d \in SumData, level \in 0..DefaultLevel : call_get_dict_structure(d, level)
SpecFn == Init /\ [][NextFn]_vars

\* ---------------------------------------------- AcquisitionNotebookManager
RECURSIVE rstrip(_, _)
\* str.rstrip(chars)
rstrip(str, chars) ==
    IF str # <<>> /\ str[Len(str)] \in chars
    THEN rstrip(SubSeq(str, 1, Len(str) - 1), chars)
    ELSE str

\* The path of the file of the acquisition that filename names.
h5_path(filename) ==
    IF Len(filename) >= 3 /\ SubSeq(filename, Len(filename) - 2, Len(filename)) = H5Ext
    THEN filename
    ELSE filename \o H5Ext

\* os.path.exists(path): the files are the one of the current acquisition,
\* if written, and the one of the old acquisition a.filename, if on disk.
path_exists(n, a, path) ==
    \/ n.h5.exists /\ path = h5_path(n.name)
    \/ a.filename # <<>> /\ a.on_disk /\ path = h5_path(a.filename)

\* os.path.exists(filename.rstrip('.h5') + '.h5'), filename being the
\* filename given or else the path of the current acquisition.
h5_found(n, a) ==
    LET filename == IF a.filename # <<>> THEN a.filename ELSE n.name
    IN  path_exists(n, a, rstrip(filename, {".", "h", "5"}) \o H5Ext)

\* AcquisitionManager.new_acquisition: a new current acquisition at a new
\* path, written at once when save_on_edit is set.
new_acquisition(n, name) ==
    [n EXCEPT !.name = name, !.aq = {},
              !.h5 = IF n.save_on_edit THEN [NoH5 EXCEPT !.exists = TRUE] ELSE NoH5]

\* A change of the data of the current acquisition (SyncData): written to
\* the file when save_on_edit is set.
SyncData_edit(n, keys) ==
    [n EXCEPT !.aq = keys,
              !.h5 = IF n.save_on_edit THEN [@ EXCEPT !.exists = TRUE, !.keys = keys]
                     ELSE @]

\* AcquisitionManager.save_acquisition(**kwds): update and save.
AcquisitionManager_save_acquisition(n, kwds) ==
    [n EXCEPT !.aq = @ \cup kwds,
              !.h5 = [@ EXCEPT !.exists = TRUE, !.keys = n.aq \cup kwds]]

\* AnalysisManager(filename, cell=...) for the file of the current
\* acquisition ("current") or of an old one ("old"); a cell that is not
\* None is stored under 'analysis_cell'.
AnalysisManager_load(n, a) ==
    IF a.filename # <<>> THEN [n EXCEPT !.am = "old"]
    ELSE [n EXCEPT !.am = "current",
                   !.h5.analysis_cell = @ \/ n.analysis_cell_str = "cell"]

\* Variant: 'useful' is left as it is.
load_am_useful_untouched(n, a) ==
    IF ~h5_found(n, a) THEN [n EXCEPT !.err = "ValueError"]
    ELSE AnalysisManager_load(n, a)

\* load_am(filename): a.filename is empty for load_am().  The update of
\* 'useful' reaches the file through save_on_edit or the explicit save.
load_am(n, a) ==
    IF ~h5_found(n, a) THEN [n EXCEPT !.err = "ValueError"]
    ELSE LET m == AnalysisManager_load(n, a)
         IN  IF a.filename # <<>> THEN m ELSE [m EXCEPT !.h5.useful = TRUE]

\* AcquisitionNotebookManager(data_directory, save_on_edit=...,
\* save_on_edit_analysis=...)
AcquisitionNotebookManager_init(save_on_edit, save_on_edit_analysis) ==
    /\ ~nb.made
    /\ nb' = [NoManager EXCEPT !.made = TRUE, !.save_on_edit = save_on_edit,
                               !.save_on_edit_analysis = save_on_edit_analysis]
    /\ UNCHANGED <<dir_exists, sentinel, file, pc, args, idx, err, before, fn, lk>>

acquisition_cell(name) ==
    /\ nb.made
    /\ nb' = new_acquisition(
                [nb EXCEPT !.analysis_cell_str = "None", !.am = "None",
                           !.err = "none", !.last = "acquisition_cell",
                           !.saved = FALSE, !.cell_run = FALSE], name)
    /\ UNCHANGED <<dir_exists, sentinel, file, pc, args, idx, err, before, fn, lk>>

\* aqm.aq[k] = ..., aqm.aq.update(k=...), aqm.aq.pop(k)
aq_edit(op, k) ==
    /\ nb.made /\ nb.name # <<>>
    /\ op = "pop" => k \in nb.aq
    /\ nb' = SyncData_edit([nb EXCEPT !.err = "none", !.last = op],
                           IF op = "pop" THEN nb.aq \ {k} ELSE nb.aq \cup {k})
    /\ UNCHANGED <<dir_exists, sentinel, file, pc, args, idx, err, before, fn, lk>>

save_acquisition(kwds) ==
    /\ nb.made /\ nb.name # <<>>
    /\ nb' = load_am(AcquisitionManager_save_acquisition(
                [nb EXCEPT !.err = "none", !.last = "save_acquisition",
                           !.saved = TRUE], kwds), NoFilename)
    /\ UNCHANGED <<dir_exists, sentinel, file, pc, args, idx, err, before, fn, lk>>

\* The first lines of analysis_cell: is_old_data and analysis_cell_str.
analysis_cell_begins(n, a) ==
    IF a.filename # <<>>
    THEN [n EXCEPT !.err = "none", !.last = "analysis_cell", !.arg = a,
                   !.is_old_data = TRUE, !.analysis_cell_str = "None"]
    ELSE [n EXCEPT !.err = "none", !.last = "analysis_cell", !.arg = a,
                   !.is_old_data = FALSE, !.analysis_cell_str = "cell",
                   !.cell_run = TRUE]

\* Variant: without a file, the analysis manager is made all the same and
\* saves.
analysis_cell_creates(filename, on_disk) ==
    /\ nb.made /\ nb.name # <<>>
    /\ LET a == [filename |-> filename, on_disk |-> on_disk]
           n == analysis_cell_begins(nb, a)
       IN  nb' = IF h5_found(n, a) THEN load_am(n, a)
                 ELSE IF n.is_old_data THEN [n EXCEPT !.err = "ValueError"]
                 ELSE [AnalysisManager_load([n EXCEPT !.h5.exists = TRUE], a)
                          EXCEPT !.h5.useful = TRUE]
    /\ UNCHANGED <<dir_exists, sentinel, file, pc, args, idx, err, before, fn, lk>>

\* Variant: am is reset before the existence test.
analysis_cell_resets_am(filename, on_disk) ==
    /\ nb.made /\ nb.name # <<>>
    /\ LET a == [filename |-> filename, on_disk |-> on_disk]
           n == [analysis_cell_begins(nb, a) EXCEPT !.am = "None"]
       IN  nb' = IF h5_found(n, a) THEN load_am(n, a)
                 ELSE IF n.is_old_data THEN [n EXCEPT !.err = "ValueError"]
                 ELSE [n EXCEPT !.am = "None"]
    /\ UNCHANGED <<dir_exists, sentinel, file, pc, args, idx, err, before, fn, lk>>

\* analysis_cell(filename): without a filename (empty) the file of the
\* current acquisition is meant; with one, the file of an old acquisition,
\* which is on disk or not.
analysis_cell(filename, on_disk) ==
    /\ nb.made /\ nb.name # <<>>
    /\ LET a == [filename |-> filename, on_disk |-> on_disk]
           n == analysis_cell_begins(nb, a)
       IN  nb' = IF h5_found(n, a) THEN load_am(n, a)
                 ELSE IF n.is_old_data THEN [n EXCEPT !.err = "ValueError"]
                 ELSE [n EXCEPT !.am = "None"]
    /\ UNCHANGED <<dir_exists, sentinel, file, pc, args, idx, err, before, fn, lk>>

NextNb ==
    \/ \E s, a \in BOOLEAN : AcquisitionNotebookManager_init(s, a)
    \/ \E name \in Names : acquisition_cell(name)
    \/ \E op \in {"setitem", "update", "pop"}, k \in DataKeys : aq_edit(op, k)
    \/ \E kwds \in SUBSET DataKeys : save_acquisition(kwds)
    \/ \E filename \in {<<>>} \cup OldFilenames, on_disk \in BOOLEAN :
          analysis_cell(filename, on_disk)
SpecNb == Init /\ [][NextNb]_vars

\* One caller making one call after the other; `before` keeps the container
\* as the call in progress (or just finished) found it.
Caller == "A"
NextSeq ==
    \/ (\E d \in SeqArgs : save_dict(Caller, d)) /\ before' = file /\ UNCHANGED <<fn, nb, lk>>
    \/ (\E k \in Keys : del_dict(Caller, k)) /\ before' = file /\ UNCHANGED <<fn, nb, lk>>
    \/ LockFile_enter(Caller) /\ UNCHANGED <<before, fn, nb, lk>>
    \/ LockFile_create(Caller) /\ UNCHANGED <<before, fn, nb, lk>>
    \/ h5py_File_open(Caller) /\ UNCHANGED <<before, fn, nb, lk>>
    \/ h5py_File_fails(Caller) /\ UNCHANGED <<before, fn, nb, lk>>
    \/ save_dict_pop(Caller) /\ UNCHANGED <<before, fn, nb, lk>>
    \/ save_dict_save(Caller) /\ UNCHANGED <<before, fn, nb, lk>>
    \/ save_dict_save_fails(Caller) /\ UNCHANGED <<before, fn, nb, lk>>
    \/ del_dict_pop(Caller) /\ UNCHANGED <<before, fn, nb, lk>>
    \/ LockFile_exit(Caller) /\ UNCHANGED <<before, fn, nb, lk>>
    \/ LockFile_remove(Caller) /\ UNCHANGED <<before, fn, nb, lk>>
    \/ open_h5_reads(Caller) /\ before' = file /\ UNCHANGED <<fn, nb, lk>>
    \/ keys_h5_reads(Caller) /\ before' = file /\ UNCHANGED <<fn, nb, lk>>
    \/ call_ends(Caller) /\ before' = NoFile /\ UNCHANGED <<fn, nb, lk>>
SpecSeq == Init /\ [][NextSeq]_vars

\* ============================================================== properties
\* Inside the with LockFile(filename) block: __enter__ has returned and
\* __exit__ has not been called yet.
Protected(p) == pc[p] \in {"open", "pop", "save"}
\* The step taken is one of caller p.
StepOf(p) == pc'[p] # pc[p]

KeysOf(data) == { data[i][1] : i \in 1..Len(data) }
\* The node save_sub_dict creates for v in a group that has no such key.
Persisted(v) == save_sub_dict(EmptyMap, v, "k")["k"]

\* ---------------------------------------------------------------------- C1
\* C1. Lock exclusivity: a save_dict whose __enter__ finds the sentinel ends
\* at once with FileLockedError; the step that ends the scope of a call that
\* got past __enter__ (with or without an exception propagating) leaves the
\* sentinel absent; and a call whose __enter__ finds no sentinel is not
\* refused: it goes on to create the sentinel.
C1_LockExclusivity ==
    [][\A p \in Procs :
        /\ (StepOf(p) /\ pc[p] = "enter" /\ args[p].op = "save_dict" /\ sentinel)
              => (pc'[p] = "done" /\ err'[p] = "FileLockedError")
        /\ (StepOf(p) /\ pc[p] \in {"exit", "remove"} /\ pc'[p] = "done")
              => ~sentinel'
        /\ (StepOf(p) /\ pc[p] = "enter" /\ ~sentinel)
              => (pc'[p] = "create_lock" /\ err'[p] = "none")]_vars

\* A save_dict was refused while the other caller held the lock, and that
\* caller has since left its scope: the sentinel is gone.
C1_Witness ==
    \E p, q \in Procs :
        /\ p # q
        /\ pc[p] = "done" /\ err[p] = "FileLockedError" /\ args[p].op = "save_dict"
        /\ pc[q] = "done" /\ err[q] = "none" /\ args[q].op = "save_dict"
        /\ ~sentinel

\* ---------------------------------------------------------------------- C2
\* C2. Release on every exit path: once a call of the single caller has
\* ended, by return or by any exception (OSError of h5py.File or of
\* save_sub_dict, KeyError of del_dict), no sentinel exists.
C2_ReleasedOnEveryExit ==
    pc[Caller] \in {"idle", "done"} => ~sentinel

\* A save_dict failed while persisting (part of the new subtree is in the
\* container), and its sentinel is gone.
C2_Witness ==
    /\ pc[Caller] = "done" /\ err[Caller] = "OSError"
    /\ args[Caller].op = "save_dict"
    /\ file # before /\ before.exists
    /\ ~sentinel

\* ---------------------------------------------------------------------- C3
\* C3. Overwrite-is-replace: a save_dict of the single caller raises nothing
\* but an I/O failure, and when it returned, every key it wrote with a value
\* other than None holds exactly the node that persisting that value into an
\* empty group gives, whatever was under the key before.
C3_OverwriteIsReplace ==
    (pc[Caller] = "done" /\ args[Caller].op = "save_dict") =>
        /\ err[Caller] \in {"none", "OSError"}
        /\ err[Caller] = "none" =>
              \A i \in 1..Len(args[Caller].data) :
                  LET k == args[Caller].data[i][1]
                      v == args[Caller].data[i][2]
                  IN  v # PyNone =>
                        /\ k \in DOMAIN file.root
                        /\ file.root[k] = Persisted(v)

\* One call replaced a group by a leaf at x and a leaf by a group at y.
C3_Witness ==
    /\ pc[Caller] = "done" /\ err[Caller] = "none"
    /\ args[Caller].op = "save_dict"
    /\ KeysOf(args[Caller].data) = {"x", "y"}
    /\ keys_h5(before) = {"x", "y"} /\ keys_h5(file) = {"x", "y"}
    /\ before.root["x"].kind = "group" /\ file.root["x"].kind = "dataset"
    /\ before.root["y"].kind = "dataset" /\ file.root["y"].kind = "group"

\* ---------------------------------------------------------------------- C4
\* C4. Delete-by-None: when a save_dict of the single caller returned, every
\* key it gave as None is absent, whether it existed before or not (no
\* KeyError), every key it did not name is there exactly as before, and so
\* {k: None} for a k that was absent leaves keys and values as they were.
C4_DeleteByNone ==
    (pc[Caller] = "done" /\ args[Caller].op = "save_dict") =>
        /\ err[Caller] # "KeyError"
        /\ err[Caller] = "none" =>
              LET data == args[Caller].data
              IN  /\ \A i \in 1..Len(data) :
                        data[i][2] = PyNone => data[i][1] \notin keys_h5(file)
                  /\ \A j \in Keys \ KeysOf(data) :
                        /\ j \in keys_h5(file) <=> j \in keys_h5(before)
                        /\ j \in keys_h5(before) => file.root[j] = before.root[j]
                  /\ ( /\ \A i \in 1..Len(data) : data[i][2] = PyNone
                        /\ KeysOf(data) \cap keys_h5(before) = {} )
                        => file.root = before.root

\* x and y were there, {"y": None} was written, the keys are now {"x"}.
C4_Witness ==
    /\ pc[Caller] = "done" /\ err[Caller] = "none"
    /\ args[Caller].op = "save_dict"
    /\ args[Caller].data = << <<"y", PyNone>> >>
    /\ keys_h5(before) = {"x", "y"}
    /\ keys_h5(file) = {"x"}

\* ---------------------------------------------------------------------- C5
RECURSIVE NoNone(_)
NoNone(v) ==
    /\ v # PyNone
    /\ \A i \in 1..Len(v.items) : NoNone(v.items[i][2])

RECURSIVE Coerced(_)
\* D up to the coercion rules: a sequence is an array, bytes are text.
Coerced(v) ==
    IF v.tag = "dict"
    THEN ReadDict([ k \in KeysOf(v.items) |->
                      Coerced(v.items[CHOOSE i \in 1..Len(v.items) : v.items[i][1] = k][2]) ])
    ELSE IF v.tag \in {"list", "tuple", "ndarray"} THEN ReadLeaf(NdArray(v.data))
    ELSE IF v.tag \in {"bytes", "str"} THEN ReadLeaf(PyStr(v.data))
    ELSE ReadLeaf(v)

\* C5. Round-trip: when save_dict(D), D without None, returned on a path that
\* had no container, open_h5 without key returns D up to the coercion rules
\* (same keys at every level, sequences as arrays, bytes as text).
C5_RoundTrip ==
    ( /\ pc[Caller] = "done" /\ err[Caller] = "none"
      /\ args[Caller].op = "save_dict"
      /\ ~before.exists
      /\ NoNone(PyDict(args[Caller].data)) )
    => open_h5(file, KeyNone) = Coerced(PyDict(args[Caller].data))

\* A two-level mapping and a byte string were written to a fresh path.
C5_Witness ==
    /\ pc[Caller] = "done" /\ err[Caller] = "none"
    /\ ~before.exists
    /\ args[Caller].data = << <<"x", VDict2>>, <<"y", VBytes>> >>
    /\ open_h5(file, KeyNone).map["x"].map["b"].map["a"].val = NdArray(<<1, 2, 3>>)
    /\ open_h5(file, KeyNone).map["y"].val = PyStr(Text)

\* ---------------------------------------------------------------------- C6
\* C6. One lock hold per write: a step changes the container only when it is
\* taken by a caller inside its with LockFile block; a call reaches the
\* creation of the sentinel only from its own __enter__ test, which it
\* reaches only from the start of the call; and __exit__ is never followed
\* by more work of the same call.
C6_OneLockHoldPerWrite ==
    [][/\ file' # file => \E p \in Procs : StepOf(p) /\ Protected(p)
       /\ \A p \in Procs :
            /\ (StepOf(p) /\ pc'[p] = "enter") => pc[p] = "idle"
            /\ (StepOf(p) /\ pc'[p] = "create_lock") => pc[p] = "enter"
            /\ (StepOf(p) /\ pc'[p] = "open") => (pc[p] = "create_lock" /\ sentinel')
            /\ (StepOf(p) /\ pc[p] \in {"exit", "remove"})
                  => pc'[p] \in {"remove", "done"}]_vars

\* A two-key write between its keys: the first is written, the second is
\* next, the sentinel of the one acquisition is still there.
C6_Witness ==
    \E p \in Procs :
        /\ pc[p] = "pop" /\ idx[p] = 2
        /\ args[p].op = "save_dict" /\ Len(args[p].data) = 2
        /\ args[p].data[1][1] \in keys_h5(file)
        /\ sentinel

\* ---------------------------------------------------------------------- C7
\* C7. Fail-fast without effect: the __enter__ test of save_dict or del_dict
\* that finds the sentinel ends the call in that one step with
\* FileLockedError and changes neither the container nor the sentinel, which
\* still exists; the start of a call touches neither.
C7_FailFastWithoutEffect ==
    [][\A p \in Procs :
        /\ (StepOf(p) /\ pc[p] = "enter" /\ sentinel)
              => /\ pc'[p] = "done" /\ err'[p] = "FileLockedError"
                 /\ file' = file /\ sentinel'
        /\ (StepOf(p) /\ pc[p] = "idle")
              => (file' = file /\ sentinel' = sentinel)]_vars

\* A del_dict was refused; the holder is still inside its block and its
\* sentinel is still there.
C7_Witness ==
    \E p, q \in Procs :
        /\ p # q
        /\ pc[p] = "done" /\ err[p] = "FileLockedError" /\ args[p].op = "del_dict"
        /\ Protected(q)
        /\ sentinel

\* ---------------------------------------------------------------------- C8
\* C8. TOCTOU gap: the creation of the sentinel does not test again; a caller
\* that passed the existence test creates the sentinel and enters its block
\* whether or not another caller has created it in the meantime.
C8_CreateDoesNotTest ==
    [][\A p \in Procs :
        (StepOf(p) /\ pc[p] = "create_lock" /\ dir_exists)
          => (pc'[p] = "open" /\ err'[p] = "none" /\ sentinel')]_vars

\* Both callers are inside their with LockFile blocks at the same time.
C8_Witness ==
    \E p, q \in Procs :
        /\ p # q
        /\ Protected(p) /\ Protected(q)
        /\ err[p] = "none" /\ err[q] = "none"

\* ---------------------------------------------------------------------- C9
\* C9. Release is idempotent: __exit__ that finds the sentinel goes on to
\* remove it, and the removal of a sentinel that is there raises nothing;
\* __exit__ that finds no sentinel ends there, raises nothing and leaves the
\* sentinel absent.
C9_ReleaseIdempotent ==
    [][\A p \in Procs :
        /\ (StepOf(p) /\ pc[p] = "exit" /\ ~sentinel)
              => (pc'[p] = "done" /\ err'[p] = err[p] /\ ~sentinel')
        /\ (StepOf(p) /\ pc[p] = "exit" /\ sentinel)
              => (pc'[p] = "remove" /\ err'[p] = err[p] /\ sentinel')
        /\ (StepOf(p) /\ pc[p] = "remove" /\ sentinel)
              => (pc'[p] = "done" /\ err'[p] = err[p] /\ ~sentinel')]_vars

\* The second release: one caller has released and returned, the other
\* reaches __exit__ with the sentinel already gone.
C9_Witness ==
    \E p, q \in Procs :
        /\ p # q
        /\ pc[q] = "done" /\ err[q] = "none"
        /\ pc[p] = "exit" /\ err[p] = "none"
        /\ ~sentinel

\* --------------------------------------------------------------------- C10
\* C10. del_dict of a present key: the pop runs while the sentinel of the
\* call exists; when the call returned, the key is gone with its subtree,
\* every other key is there exactly as before, and the sentinel is absent.
C10_DeleteRemovesExactlyKey ==
    (args[Caller].op = "del_dict" /\ args[Caller].key \in keys_h5(before)) =>
        /\ pc[Caller] = "pop" => sentinel
        /\ pc[Caller] = "done" =>
              /\ err[Caller] \in {"none", "OSError"}
              /\ ~sentinel
              /\ err[Caller] = "none" =>
                    /\ keys_h5(file) = keys_h5(before) \ {args[Caller].key}
                    /\ \A j \in keys_h5(file) : file.root[j] = before.root[j]

\* A group was deleted at y; x is still there.
C10_Witness ==
    /\ pc[Caller] = "done" /\ err[Caller] = "none"
    /\ args[Caller].op = "del_dict" /\ args[Caller].key = "y"
    /\ keys_h5(before) = {"x", "y"}
    /\ before.root["y"].kind = "group"
    /\ keys_h5(file) = {"x"}

\* --------------------------------------------------------------------- C11
\* C11. del_dict of an absent key: the call always ends with an exception and
\* is not tried again; it is KeyError whenever h5py.File could open the
\* container; the keys and values of the container are those from before
\* the call and the sentinel is absent.
C11_DeleteAbsentKey ==
    (args[Caller].op = "del_dict" /\ args[Caller].key \notin keys_h5(before)) =>
        /\ (pc[Caller] = "exit" /\ idx[Caller] = 1) => err[Caller] = "KeyError"
        /\ pc[Caller] = "done" =>
              /\ err[Caller] \in {"KeyError", "OSError"}
              /\ idx[Caller] = 1 => err[Caller] = "KeyError"
              /\ file.root = before.root
              /\ ~sentinel

\* del_dict("y") raised KeyError on a container that holds only x.
C11_Witness ==
    /\ pc[Caller] = "done" /\ err[Caller] = "KeyError"
    /\ args[Caller].op = "del_dict" /\ args[Caller].key = "y"
    /\ keys_h5(before) = {"x"} /\ file = before
    /\ ~sentinel

\* --------------------------------------------------------------------- C12
\* The names a key filter is drawn from: top-level and nested ones.
FilterNames == Keys \cup {"a", "b"}

RECURSIVE ReadsAllOf(_, _)
\* What was read for a node has, at every level, all the keys of the node.
ReadsAllOf(read, node) ==
    IF node.kind = "group"
    THEN /\ read.tag = "dict"
         /\ DOMAIN read.map = DOMAIN node.children
         /\ \A k \in DOMAIN read.map : ReadsAllOf(read.map[k], node.children[k])
    ELSE read.tag = "leaf"

\* C12. Reader key filter is top-level only: open_h5 with a set of names
\* returns exactly the top-level keys of the container that are in the set
\* (an absent name is just missing), and under each of them everything the
\* container holds, nested keys outside the set included.
C12_FilterTopLevelOnly ==
    file.exists =>
        \A K \in SUBSET FilterNames :
            LET read == open_h5(file, KeySet(K))
            IN  /\ DOMAIN read.map = K \cap keys_h5(file)
                /\ \A k \in DOMAIN read.map : ReadsAllOf(read.map[k], file.root[k])

\* x holds a two-level group, y exists; reading with the single name "x"
\* returns x alone, with its nested keys b (and a, c under b) and c.
C12_Witness ==
    /\ keys_h5(file) = {"x", "y"}
    /\ file.root["x"] = Persisted(VDict2)
    /\ DOMAIN open_h5(file, KeyStr("x")).map = {"x"}
    /\ DOMAIN open_h5(file, KeyStr("x")).map["x"].map = {"b", "c"}
    /\ DOMAIN open_h5(file, KeyStr("x")).map["x"].map["b"].map = {"a", "c"}

\* --------------------------------------------------------------------- C13
\* C13. Readers never take the lock: open_h5 and keys_h5 are over in one
\* step that changes neither the sentinel nor the container, never raise
\* FileLockedError, and return normally whenever the container exists,
\* sentinel or not.
C13_ReadersTakeNoLock ==
    [][\A p \in Procs :
        (StepOf(p) /\ args'[p].op \in {"open_h5", "keys_h5"} /\ pc[p] = "idle")
          => /\ pc'[p] = "done"
             /\ sentinel' = sentinel /\ file' = file
             /\ err'[p] # "FileLockedError"
             /\ file.exists => err'[p] = "none"]_vars

\* open_h5 returned while the other caller is inside save_dict, between
\* the pop of a key and its save_sub_dict, with the sentinel in place.
C13_Witness ==
    \E p, q \in Procs :
        /\ p # q
        /\ pc[p] = "done" /\ args[p].op = "open_h5" /\ err[p] = "none"
        /\ pc[q] = "save" /\ args[q].op = "save_dict"
        /\ sentinel

\* --------------------------------------------------------------------- C14
\* bool(data.__should_not_be_converted__)
Truthy(data) ==
    hasattr(data, "__should_not_be_converted__") /\ data.marker \in {"True", "1"}

\* C14 as stated. Opaque short-circuit for any truthy marker: a value whose
\* marker evaluates true is returned unchanged by the normalizer.
C14_TruthyMarkerUnchanged ==
    (fn.op = "transform_to_possible_formats" /\ Truthy(fn.arg)) => fn.ret = fn.arg

\* C14, amended. Opaque short-circuit: a value whose marker is the object
\* True is returned unchanged by the normalizer (not decomposed, not
\* converted, not recursed into), whatever else it exposes; this holds for
\* the value itself and for it as the value of a key of a mapping.
C14_TrueMarkerUnchanged ==
    fn.op = "transform_to_possible_formats" =>
        /\ should_not_be_converted(fn.arg) => fn.ret = fn.arg
        /\ (fn.arg.tag = "dict" /\ should_not_be_converted(fn.arg.items[1][2]))
              => fn.ret.items[1][2] = fn.arg.items[1][2]

\* An object with the marker True, _asdict and asarray came back as it was.
C14_Witness ==
    /\ fn.op = "transform_to_possible_formats"
    /\ fn.arg.tag = "object" /\ fn.arg.marker = "True"
    /\ fn.arg.attrs = {"_asdict", "asarray", "__should_not_be_converted__"}
    /\ fn.ret = fn.arg

\* --------------------------------------------------------------------- C15
RECURSIVE PersistNormalized(_, _, _)
RECURSIVE PersistItems(_, _)
PersistItems(g, items) ==
    IF items = <<>> THEN g
    ELSE PersistItems(PersistNormalized(g, Head(items)[2], Head(items)[1]), Tail(items))
\* Persisting a normalized value n under key: a mapping becomes a group,
\* None nothing, anything else a leaf.
PersistNormalized(group, n, key) ==
    IF n.tag = "dict" THEN Put(group, key, Group(PersistItems(EmptyMap, n.items)))
    ELSE IF n.tag = "None" THEN group
    ELSE create_dataset(group, key, n)

\* C15. Write persists the normalized value: the node save_sub_dict creates
\* for v is the one that persisting transform_to_possible_formats(v) yields,
\* at every nesting level; an object with a true marker is not decomposed.
C15_WritePersistsNormalized ==
    fn.op = "save_sub_dict" =>
        fn.node = PersistNormalized(EmptyMap, transform_to_possible_formats(fn.arg), "k")

\* --------------------------------------------------------------------- C16
Sequence(v) == v.tag \in {"tuple", "set", "list"}

RECURSIVE NoSequence(_)
\* Neither v nor the value of a key at any depth of v is a tuple, set or list.
NoSequence(v) ==
    /\ ~Sequence(v)
    /\ v.tag = "dict" => \A i \in 1..Len(v.items) : NoSequence(v.items[i][2])

RECURSIVE ReplacedByArrays(_, _)
\* r has the keys of the mapping v, in its order, and an array with the
\* elements of the sequence wherever v has a sequence.
ReplacedByArrays(v, r) ==
    IF Sequence(v) THEN r = NdArray(v.data)
    ELSE IF v.tag = "dict"
    THEN /\ r.tag = "dict"
         /\ Len(r.items) = Len(v.items)
         /\ \A i \in 1..Len(v.items) :
               /\ r.items[i][1] = v.items[i][1]
               /\ ReplacedByArrays(v.items[i][2], r.items[i][2])
    ELSE TRUE

\* C16. Normalizer sequence rule: for an input that is not opaque, the result
\* holds no tuple, set or list, neither itself nor under any key at any
\* depth; each is replaced by the array of its elements, an empty one by the
\* empty array and not by None, and a mapping keeps its keys.
C16_SequencesBecomeArrays ==
    (fn.op = "transform_to_possible_formats" /\ ~should_not_be_converted(fn.arg)) =>
        /\ NoSequence(fn.ret)
        /\ ReplacedByArrays(fn.arg, fn.ret)
        /\ fn.ret.tag # "None" \/ fn.arg.tag = "None"

\* A two-level mapping with an empty set at depth 2 and a tuple at depth 1
\* came back with the empty array and the array (4, 5) under the same keys.
C16_Witness ==
    /\ fn.op = "transform_to_possible_formats"
    /\ fn.arg = PyDict(<< <<"a", PyDict(<< <<"b", PySet(<<>>)>> >>)>>,
                          <<"c", PyTuple(<<4, 5>>)>> >>)
    /\ fn.ret = PyDict(<< <<"a", PyDict(<< <<"b", NdArray(<<>>)>> >>)>>,
                          <<"c", NdArray(<<4, 5>>)>> >>)

\* --------------------------------------------------------------------- C17
Collapsed == StrDesc("variable of type dict")

\* C17. Structure collapse: get_dict_structure(data, level) describes the
\* top level key by key however many keys it has; a non-empty nested dict is
\* described as "variable of type dict" exactly when level is 0 or its own
\* summary (at level - 1) has more than 5 entries, and by that summary
\* otherwise.
C17_StructureCollapse ==
    fn.op = "get_dict_structure" =>
        /\ fn.struct.kind = "dict"
        /\ DOMAIN fn.struct.map = KeysOf(fn.arg.items)
        /\ \A i \in 1..Len(fn.arg.items) :
              LET k == fn.arg.items[i][1]
                  v == fn.arg.items[i][2]
              IN  (v.tag = "dict" /\ Len(v.items) > 0) =>
                    IF fn.level = 0 THEN fn.struct.map[k] = Collapsed
                    ELSE LET summary == get_dict_structure(v, fn.level - 1)
                         IN  /\ Cardinality(DOMAIN summary.map) = Len(v.items)
                             /\ fn.struct.map[k] =
                                   IF Len(v.items) > 5 THEN Collapsed ELSE summary

\* A dict of 7 keys at level 1 whose first value is a dict of 6 keys: all 7
\* keys are described, the first as "variable of type dict".
C17_Witness ==
    /\ fn.op = "get_dict_structure" /\ fn.level = 1
    /\ fn.arg = TopWide(7, Wide(6))
    /\ Cardinality(DOMAIN fn.struct.map) = 7
    /\ fn.struct.map["k1"] = Collapsed
    /\ fn.struct.map["k2"] = StrDesc("2 (type : int)")

\* --------------------------------------------------------------------- C18
\* C18. Empty nested mapping: with level > 0, every key whose value is an
\* empty dict is described by the literal "empty dict".
C18_EmptyDictLiteral ==
    (fn.op = "get_dict_structure" /\ fn.level > 0) =>
        \A i \in 1..Len(fn.arg.items) :
            fn.arg.items[i][2] = PyDict(<<>>) =>
                fn.struct.map[fn.arg.items[i][1]] = StrDesc("empty dict")

\* --------------------------------------------------------------------- C19
\* C19. Float notation choice: a float is formatted with three decimal places
\* exactly when its magnitude lies in [0.1, 100], for positive and negative
\* values alike, and in scientific notation otherwise.
C19_FloatNotationByMagnitude ==
    fn.op = "get_dict_structure" =>
        \A i \in 1..Len(fn.arg.items) :
            LET k == fn.arg.items[i][1]
                v == fn.arg.items[i][2]
            IN  v.tag = "float" =>
                  fn.struct.map[k].text =
                      (IF in_fixed_range(Abs(v.data[1])) THEN format_3f(v.data[1])
                       ELSE format_3e(v.data[1])) \o " (type : float)"

\* --------------------------------------------------------------------- C20
\* C20. Deferred file creation: with save_on_edit = False, the file of the
\* current acquisition does not exist after acquisition_cell, nor after any
\* data edit (item assignment, update, pop) or analysis_cell that follows;
\* it exists once save_acquisition was called, with or without data.
C20_DeferredFileCreation ==
    (nb.made /\ ~nb.save_on_edit /\ nb.name # <<>>) => (nb.h5.exists <=> nb.saved)

\* x and y were set, analysis_cell ran and kept its cell text, and there is
\* still no file.
C20_Witness ==
    /\ nb.made /\ ~nb.save_on_edit /\ ~nb.saved
    /\ nb.aq = {"x", "y"}
    /\ nb.last = "analysis_cell" /\ nb.analysis_cell_str = "cell"
    /\ ~nb.h5.exists

\* --------------------------------------------------------------------- C21
\* C21. Analysis-manager lifecycle: am is None after every acquisition_cell;
\* analysis_cell without filename leaves am loaded if the file of the
\* current acquisition exists and None if it does not; every save_acquisition
\* that returns leaves am not None.
C21_AnalysisManagerLifecycle ==
    /\ nb.last = "acquisition_cell" => nb.am = "None"
    /\ (nb.last = "analysis_cell" /\ nb.arg.filename = <<>>) =>
          nb.am = IF nb.h5.exists THEN "current" ELSE "None"
    /\ (nb.last = "save_acquisition" /\ nb.err = "none") => nb.am # "None"

\* --------------------------------------------------------------------- C22
\* The call that was made in this step.
Called(op) == nb' # nb /\ nb'.last = op

\* C22. Useful flag: 'useful' is False after acquisition_cell and is not
\* changed by item assignment, update or pop; it is True once
\* save_acquisition has returned or an analysis_cell has loaded the file of
\* the acquisition.
C22_UsefulFlag ==
    [][/\ Called("acquisition_cell") => ~nb'.h5.useful
       /\ (Called("setitem") \/ Called("update") \/ Called("pop")) =>
             nb'.h5.useful = nb.h5.useful
       /\ (Called("save_acquisition") /\ nb'.err = "none") => nb'.h5.useful
       /\ (Called("analysis_cell") /\ nb'.am = "current") => nb'.h5.useful
       /\ nb'.h5.useful => (nb.h5.useful \/ nb'.am = "current")]_vars

\* Without save_on_edit: x was set with 'useful' still False, and then
\* save_acquisition returned and it is True.
C22_Witness ==
    /\ nb.made /\ ~nb.save_on_edit
    /\ nb.last = "save_acquisition" /\ nb.err = "none"
    /\ "x" \in nb.aq
    /\ nb.h5.useful

\* --------------------------------------------------------------------- C23
\* C23. Analysis cell text is persisted: after analysis_cell without
\* filename on an acquisition whose file exists, the file holds the text
\* under 'analysis_cell'; when the file is written only later, by
\* save_acquisition, it holds the text of an analysis_cell made since the
\* acquisition_cell.
C23_AnalysisCellPersisted ==
    /\ (nb.last = "analysis_cell" /\ nb.arg.filename = <<>> /\ nb.h5.exists) =>
          nb.h5.analysis_cell
    /\ (nb.last = "save_acquisition" /\ nb.cell_run) => nb.h5.analysis_cell

\* --------------------------------------------------------------------- C28
\* C28. Failed load of old data: analysis_cell(filename) for a file that is
\* not on disk raises ValueError and leaves am as it was, with is_old_data
\* True and analysis_cell_str None.
C28_FailedLoadKeepsAm ==
    [][(Called("analysis_cell") /\ nb'.arg.filename # <<>> /\ ~nb'.arg.on_disk) =>
          /\ nb'.err = "ValueError"
          /\ nb'.am = nb.am
          /\ nb'.is_old_data
          /\ nb'.analysis_cell_str = "None"]_vars

\* An analysis of the current acquisition was loaded, the load of old data
\* failed, and the analysis is still there.
C28_Witness ==
    /\ nb.last = "analysis_cell" /\ nb.arg.filename # <<>> /\ ~nb.arg.on_disk
    /\ nb.err = "ValueError"
    /\ nb.am = "current"
    /\ nb.is_old_data /\ nb.analysis_cell_str = "None"

\* --------------------------------------------------------------------- C29
\* C29. Extension handling in the existence check: the path tested is the
\* path of the file, with one '.h5'; so analysis_cell finds the file of an
\* old acquisition that is on disk, given with or without extension, and
\* save_acquisition finds the file it has just written and sets am,
\* whatever the last characters of the name are.
C29_ExistenceCheckPath ==
    /\ nb.last = "save_acquisition" => (nb.err = "none" /\ nb.am = "current")
    /\ (nb.last = "analysis_cell" /\ nb.arg.filename # <<>> /\ nb.arg.on_disk) =>
          (nb.err = "none" /\ nb.am = "old")

\* --------------------------------------------------------------------- C24
RECURSIVE PartlyWritten(_, _)
\* node is a group that holds a part of what the group full holds, and not
\* all of it.
PartlyWritten(node, full) ==
    /\ node.kind = "group" /\ full.kind = "group"
    /\ node # full
    /\ DOMAIN node.children \subseteq DOMAIN full.children
    /\ \A c \in DOMAIN node.children :
          \/ node.children[c] = full.children[c]
          \/ PartlyWritten(node.children[c], full.children[c])

\* C24. Non-atomic multi-key write: when save_dict has failed while saving
\* its i-th key k, every key before k holds its new value (is absent for
\* None), every key after k is as it was before the call, k is absent or
\* partly written, and the sentinel is absent.
C24_NonAtomicWrite ==
    (/\ pc[Caller] = "done" /\ args[Caller].op = "save_dict"
     /\ err[Caller] = "OSError" /\ idx[Caller] >= 1) =>
        LET data == args[Caller].data
            i == idx[Caller]
        IN  /\ \A j \in 1..Len(data) :
                  LET key == data[j][1]
                      value == data[j][2]
                  IN  /\ j < i =>
                            IF value = PyNone THEN key \notin keys_h5(file)
                            ELSE /\ key \in keys_h5(file)
                                 /\ file.root[key] = Persisted(value)
                      /\ j > i =>
                            /\ key \in keys_h5(file) <=> key \in keys_h5(before)
                            /\ key \in keys_h5(file) => file.root[key] = before.root[key]
                      /\ j = i =>
                            \/ key \notin keys_h5(file)
                            \/ PartlyWritten(file.root[key], Persisted(value))
            /\ ~sentinel

\* A write of two keys failed on the second, which held a list before: the
\* first holds its new value, the second a part of its new group.
C24_Witness ==
    /\ pc[Caller] = "done" /\ args[Caller].op = "save_dict"
    /\ err[Caller] = "OSError" /\ idx[Caller] = 2
    /\ args[Caller].data = << <<"x", VBytes>>, <<"y", VDict2>> >>
    /\ keys_h5(before) = {"y"} /\ before.root["y"] = Persisted(VList)
    /\ keys_h5(file) = {"x", "y"}
    /\ file.root["x"] = Persisted(VBytes)
    /\ PartlyWritten(file.root["y"], Persisted(VDict2))
    /\ ~sentinel

\* --------------------------------------------------------------------- C27
\* Caller p got past the existence test of __enter__ and has not finished
\* __exit__.
PastCheck(p) == pc[p] \in {"create_lock", "open", "pop", "save", "exit", "remove"}
NoOverlap == Cardinality({ p \in Procs : PastCheck(p) }) <= 1
Covered == \A p \in Procs : Protected(p) => sentinel

\* C27 as stated. Sentinel covers the protected section: in every reachable
\* state of every interleaving, a caller inside its protected section
\* implies that the sentinel exists.
C27_SentinelCoversProtected == Covered

\* C27, amended. As long as no two callers are past the existence test of
\* acquire at the same time, a caller inside its protected section implies
\* that the sentinel exists: no step taken without such an overlap uncovers
\* a protected section.
C27_CoveredWithoutOverlap ==
    [][(Covered /\ NoOverlap /\ NoOverlap') => Covered']_vars

\* A is in its protected section under the sentinel while B was refused.
C27_Witness ==
    /\ pc["A"] = "save" /\ sentinel
    /\ pc["B"] = "done" /\ err["B"] = "FileLockedError"

\* --------------------------------------------------------------------- C25
\* C25 as stated. Stale sentinel is permanent: once a caller has stopped
\* inside its protected section without running release, the sentinel is
\* there, and stays.
C25_StaleSentinelStays == (\E p \in Procs : pc[p] = "killed") => sentinel

\* A caller was killed inside its protected section, the sentinel exists and
\* no other caller is past the existence test of acquire.
Stale ==
    /\ sentinel
    /\ \E p \in Procs : pc[p] = "killed"
    /\ \A q \in Procs : ~PastCheck(q)

\* C25, amended. If a caller stops inside its protected section without
\* running release while no other caller is past acquire's check, the
\* sentinel stays for good: no write, delete, read or list_keys removes it,
\* and every write and delete from then on ends with FileLockedError.
C25_StaleSentinelPermanent ==
    [][Stale =>
          /\ Stale'
          /\ \A q \in Procs :
                (pc[q] = "enter" /\ pc'[q] # "enter") =>
                    (pc'[q] = "done" /\ err'[q] = "FileLockedError")]_vars

\* A was killed between pop and save; B then tried a delete and was refused,
\* and the sentinel is still there.
C25_Witness ==
    /\ pc["A"] = "killed" /\ args["A"].op = "save_dict"
    /\ pc["B"] = "done" /\ args["B"].op = "del_dict"
    /\ err["B"] = "FileLockedError"
    /\ sentinel

\* --------------------------------------------------------------------- C26
\* Position i of path holds the dot that starts its final extension: no dot
\* and no separator follows, and the component has a character other than a
\* dot before it.
FinalExtensionAt(path, i) ==
    /\ path[i] = "."
    /\ \A j \in (i + 1)..Len(path) : path[j] \notin {".", "/"}
    /\ \E j \in 1..(i - 1) :
          path[j] # "." /\ \A k \in j..(i - 1) : path[k] # "/"
\* The path after its final extension is removed.
Base(path) ==
    IF \E i \in 1..Len(path) : FinalExtensionAt(path, i)
    THEN SubSeq(path, 1, (CHOOSE i \in 1..Len(path) : FinalExtensionAt(path, i)) - 1)
    ELSE path
\* Caller q is in a mutating operation that passed the test of its acquire
\* and has not finished.
InProgress(q) == lk.pc[q] \in {"create_lock", "body", "exit", "remove"}
\* The step taken is the existence test of caller p's acquire.
Tests(p) == lk.pc[p] = "enter" /\ lk'.pc[p] # "enter"
Refused(p) == lk'.err[p] = "FileLockedError"

\* C26 as stated. Lock identity: a mutating operation on one path fails with
\* FileLockedError while another is in progress on a different path if and
\* only if the two paths are equal after their final extension is removed.
C26_LockIdentity ==
    [][\A p, q \in Procs :
          (p # q /\ Tests(p) /\ InProgress(q) /\ lk.filename[p] # lk.filename[q]) =>
              (Refused(p) <=> Base(lk.filename[p]) = Base(lk.filename[q]))]_vars

\* C26, amended. The sentinel of a path is the path with its final extension
\* replaced by ".lock"; a mutating operation fails with FileLockedError only
\* if another operation is in progress on a path with the same base, so
\* paths with different bases never block each other; and it does fail
\* whenever the sentinel of its base exists when acquire tests it.
C26_LockIdentityBySentinel ==
    [][\A p \in Procs :
          /\ (lk.pc[p] = "create_lock" /\ lk'.pc[p] = "body") =>
                lk'.locks = lk.locks \cup {Base(lk.filename[p]) \o LockExt}
          /\ (Tests(p) /\ Refused(p)) =>
                \E q \in Procs \ {p} :
                    /\ lk.pc[q] \in {"body", "exit", "remove"}
                    /\ Base(lk.filename[q]) = Base(lk.filename[p])
          /\ (Tests(p) /\ Base(lk.filename[p]) \o LockExt \in lk.locks) =>
                Refused(p)]_vars

\* A works on "a.h" inside its with block; B tried "a.d" and was refused.
C26_Witness ==
    /\ lk.pc["A"] = "body" /\ lk.filename["A"] = <<"a", ".", "h">>
    /\ lk.pc["B"] = "done" /\ lk.filename["B"] = <<"a", ".", "d">>
    /\ lk.err["B"] = "FileLockedError"
    /\ lk.locks = {<<"a">> \o LockExt}

====
